---- MODULE Spec2Model ----
(***************************************************************************)
(* Model of src/bot.py: the RSS -> dedup -> enrich -> translate -> persist *)
(* -> publish pipeline (main), the sqlite ledger (save_to_db,              *)
(* is_article_new), the CSV export (export_db_to_csv,                      *)
(* send_csv_to_telegram) and the scheduler loop that runs both jobs.       *)
(*                                                                         *)
(* Text is a sequence of tokens (a token is a TLA+ string standing for one *)
(* or more characters), so that concatenation, splitting and comparison    *)
(* are computed and not assumed.                                           *)
(***************************************************************************)
EXTENDS Integers, Sequences, FiniteSets, TLC

VARIABLES
    pc,             \* position of the single thread: "idle", a step of main or of send_csv_to_telegram, "returned", "crashed"
    polls,          \* number of runs of main started so far
    exports,        \* number of runs of send_csv_to_telegram started so far
    feed,           \* what feedparser.parse(RSS_URL) returned in the current poll
    articles,       \* the list parse_rss returned (dicts are updated in place by main)
    idx,            \* position of main's for loop in articles (1-based)
    page_html,      \* local of main
    raw_annotation, \* local of main
    ledger,         \* rows of table articles of DB_FILE, in rowid order
    published,      \* history: every call of publish_to_telegram (the message given to bot.send_message)
    saves,          \* history: the articles of the calls of save_to_db that returned, in call order
    runLog,         \* history of the current run: the calls made, in order
    csvFile,        \* rows of ijohe_pub.csv (<<>> while the file does not exist)
    documents       \* history: the files handed to bot.send_document

vars == <<pc, polls, exports, feed, articles, idx, page_html, raw_annotation,
          ledger, published, saves, runLog, csvFile, documents>>

----------------------------------------------------------------------------
(* Bounds of the model *)

\* number of runs of main the scheduler starts
MaxPolls == 2
\* number of runs of send_csv_to_telegram the scheduler starts
MaxExports == 1
\* longest feed the feed source returns
MaxFeedLen == 3
\* number of direct calls of save_to_db in SpecLedger
MaxSaves == 2
\* number of direct calls of the translate functions in SpecTranslate
MaxCalls == 2
\* longest text before the marker in the pages of SpecClean
MaxTextLen == 3
\* most divs in the pages of SpecClean
MaxDivs == 3

----------------------------------------------------------------------------
(* Text constants of the program *)

DefaultTitle == <<"Bez nazvaniya">>                 \* 'Без названия'
DefaultLink == <<"#">>
DefaultDate == <<"Neizvestno">>                     \* "Неизвестно"
DefaultAuthors == <<"Neizvestny">>                  \* "Неизвестны"
DefaultAnnotation == <<"Annotatsiya otsutstvuet.">> \* 'Аннотация отсутствует.'
NotFound == <<"Annotation not found.">>
NoTitle == <<"No Title">>
NoTitleRu == <<"Net zagolovka">>                    \* "Нет заголовка"
NotFoundRu == <<"Annotatsiya ne naidena.">>         \* "Аннотация не найдена."
CsvHeader == <<"Hash", "Russian Title", "Russian Annotation", "Authors", "Publication Date", "URL">>

----------------------------------------------------------------------------
(* The environment: feed entries, landing pages, the translation service *)

\* Raw feed entries the source can return. A key a raw entry lacks is absent
\* from the record's domain. A description is the sequence of its <p> tags,
\* each already split at its first ":" into a lower-cased label and a value.
Entry1 == [title |-> <<"a", "b">>, link |-> <<"c">>,
           description |-> << [label |-> "publication date", value |-> <<"2024">>],
                              [label |-> "author(s)", value |-> <<"Li">>] >>]
Entry2 == [title |-> <<"a">>, link |-> <<"b", "c">>,
           description |-> << [label |-> "other", value |-> <<"x">>] >>]
Entry3 == [link |-> <<"d">>]
FeedEntries == {Entry1, Entry2, Entry3}

RECURSIVE SeqsUpTo(_, _)
SeqsUpTo(S, n) ==
    IF n = 0 THEN {<<>>}
    ELSE LET shorter == SeqsUpTo(S, n - 1)
         IN shorter \cup {Append(s, e) : s \in {t \in shorter : Len(t) = n - 1}, e \in S}

IsInjective(s) == \A i, j \in 1..Len(s) : i # j => s[i] # s[j]

\* The feeds of the model: no entry twice in one feed.
Feeds == [bozo : BOOLEAN,
          entries : {s \in SeqsUpTo(FeedEntries, MaxFeedLen) : IsInjective(s)}]

\* A landing page is the sequence of its <div> elements in document order; a
\* div has its class attribute and its text fragments (each a Text).
PageAbstracts == << [class |-> "other", frags |-> << <<"menu">> >>],
                    [class |-> "Abstracts", frags |-> << <<"X">> >>] >>
PageNoAbstract == << [class |-> "other", frags |-> << <<"menu">> >>] >>
Pages == {PageAbstracts, PageNoAbstract}
EmptyHtml == <<>>

\* The text the translation service answers with (already stripped).
Ru(text) == <<"ru:">> \o text

----------------------------------------------------------------------------
(* Pure functions of the program *)

Min(a, b) == IF a < b THEN a ELSE b

\* dict.get(key, default)
Get(d, key, default) == IF key \in DOMAIN d THEN d[key] ELSE default

\* dict[key] = value
Put(d, key, value) == [k \in DOMAIN d \cup {key} |-> IF k = key THEN value ELSE d[k]]

\* the slice feed.entries[:2] of parse_rss
FeedWindow == 2

\* The loop of parse_rss over the <p> tags of a description: the last
\* "publication date:" paragraph and the last "author(s):" paragraph win.
RECURSIVE ParseDescription(_, _, _)
ParseDescription(ps, date, authors) ==
    IF ps = <<>> THEN [published_date |-> date, authors |-> authors]
    ELSE IF Head(ps).label = "publication date"
         THEN ParseDescription(Tail(ps), Head(ps).value, authors)
    ELSE IF Head(ps).label = "author(s)"
         THEN ParseDescription(Tail(ps), date, Head(ps).value)
    ELSE ParseDescription(Tail(ps), date, authors)

ParseEntry(entry) ==
    LET description_html == Get(entry, "description", <<>>)
        parsed == ParseDescription(description_html, DefaultDate, DefaultAuthors)
    IN [title |-> Get(entry, "title", DefaultTitle),
        link |-> Get(entry, "link", DefaultLink),
        published_date |-> parsed.published_date,
        authors |-> parsed.authors,
        annotation |-> DefaultAnnotation,
        description |-> description_html]

\* parse_rss over feed.entries in place of feed.entries[:2]
parse_rss_NoSlice(f) ==
    IF f.bozo THEN <<>>
    ELSE IF f.entries = <<>> THEN <<>>
    ELSE [i \in 1..Len(f.entries) |-> ParseEntry(f.entries[i])]

\* parse_rss without the feed.bozo test
parse_rss_NoBozoCheck(f) ==
    IF f.entries = <<>> THEN <<>>
    ELSE [i \in 1..Min(FeedWindow, Len(f.entries)) |-> ParseEntry(f.entries[i])]

parse_rss(f) ==
    IF f.bozo THEN <<>>
    ELSE IF f.entries = <<>> THEN <<>>
    ELSE [i \in 1..Min(FeedWindow, Len(f.entries)) |-> ParseEntry(f.entries[i])]

\* hashlib.md5(...).hexdigest(): the digest is taken to be collision-free and
\* is written as its tagged preimage.
Md5(text) == <<"md5:">> \o text

\* main's f"{article['title']}{article['link']}" digested
Fingerprint(title, link) == Md5(title \o link)

\* the characters \s of re matches: here the space and the newline
IsSpace(tok) == tok \in {" ", "\n"}

RECURSIVE LStrip(_)
LStrip(t) == IF t # <<>> /\ IsSpace(Head(t)) THEN LStrip(Tail(t)) ELSE t

RECURSIVE RStrip(_)
RStrip(t) == IF t # <<>> /\ IsSpace(t[Len(t)]) THEN RStrip(SubSeq(t, 1, Len(t) - 1)) ELSE t

\* str.strip()
Strip(t) == RStrip(LStrip(t))

\* Tag.get_text(separator=" ", strip=True): the stripped, non-empty fragments
\* joined by one space.
RECURSIVE GetText(_)
GetText(frags) ==
    IF frags = <<>> THEN <<>>
    ELSE LET first == Strip(Head(frags))
             rest == GetText(Tail(frags))
         IN IF first = <<>> THEN rest
            ELSE IF rest = <<>> THEN first
            ELSE first \o <<" ">> \o rest

\* the characters of "Graphical abstract"
Marker == <<"Graphical", " ", "abstract">>

\* position of the first occurrence of marker in text, 0 when there is none
IndexOf(text, marker) ==
    LET hits == {i \in 1..(Len(text) - Len(marker) + 1) :
                    SubSeq(text, i, i + Len(marker) - 1) = marker}
    IN IF hits = {} THEN 0 ELSE CHOOSE i \in hits : \A j \in hits : i <= j

\* re.sub(r'\s+', ' ', text): every run of whitespace becomes one space
RECURSIVE CollapseSpaces(_)
CollapseSpaces(t) ==
    IF t = <<>> THEN <<>>
    ELSE IF IsSpace(Head(t)) THEN <<" ">> \o CollapseSpaces(LStrip(Tail(t)))
    ELSE <<Head(t)>> \o CollapseSpaces(Tail(t))

\* soup.find("div", class_=cls): the first matching div, 0 for None
FindDiv(html, cls) ==
    LET hits == {i \in 1..Len(html) : html[i].class = cls}
    IN IF hits = {} THEN 0 ELSE CHOOSE i \in hits : \A j \in hits : i <= j

\* one find for the three classes: the first such div of the document
AbstractDiv_DocumentOrder(html) ==
    LET hits == {i \in 1..Len(html) :
                    html[i].class \in {"Abstracts", "svAbstract", "abstract author"}}
    IN IF hits = {} THEN 0 ELSE CHOOSE i \in hits : \A j \in hits : i <= j

AbstractDiv(html) ==
    IF FindDiv(html, "Abstracts") # 0 THEN FindDiv(html, "Abstracts")
    ELSE IF FindDiv(html, "svAbstract") # 0 THEN FindDiv(html, "svAbstract")
    ELSE FindDiv(html, "abstract author")

\* clean_annotation without the "Graphical abstract" test
clean_annotation_NoTruncate(html_text) ==
    IF AbstractDiv(html_text) # 0
    THEN CollapseSpaces(GetText(html_text[AbstractDiv(html_text)].frags))
    ELSE NotFound

clean_annotation(html_text) ==
    IF AbstractDiv(html_text) # 0
    THEN LET text == GetText(html_text[AbstractDiv(html_text)].frags)
             cut == IndexOf(text, Marker)
         IN CollapseSpaces(IF cut # 0 THEN Strip(SubSeq(text, 1, cut - 1)) ELSE text)
    ELSE NotFound

\* What requests.get(...) followed by raise_for_status() can do: raise
\* (ok = FALSE: network error, timeout, non-2xx status) or give a page.
\* A response with an error status has a body too.
Responses == [ok : {TRUE}, text : Pages] \cup [ok : {FALSE}, text : {EmptyHtml, PageAbstracts}]

\* fetch_annotation without raise_for_status()
fetch_annotation_IgnoreStatus(response) == response.text

\* fetch_annotation: "" when the request raised, else response.text
fetch_annotation(response) == IF response.ok THEN response.text ELSE EmptyHtml

\* Does translate_title_openai call the remote service for this input?
TitleCallsRemote(eng_title) == ~(eng_title = <<>> \/ eng_title = NoTitle)

\* translate_title_openai returning "" when the remote call fails
translate_title_openai_EmptyOnError(eng_title, remote) ==
    IF ~TitleCallsRemote(eng_title) THEN NoTitleRu
    ELSE IF remote = "ok" THEN Ru(eng_title)
    ELSE <<>>

\* translate_title_openai; remote is the outcome of the remote call, "ok" or "error"
translate_title_openai(eng_title, remote) ==
    IF ~TitleCallsRemote(eng_title) THEN NoTitleRu
    ELSE IF remote = "ok" THEN Ru(eng_title)
    ELSE eng_title

\* the test of translate_annotation_openai without the sentinel
AnnotationCallsRemote_EmptyOnly(eng_annotation) == eng_annotation # <<>>

AnnotationCallsRemote(eng_annotation) == ~(eng_annotation = <<>> \/ eng_annotation = NotFound)

translate_annotation_openai(eng_annotation, remote) ==
    IF ~AnnotationCallsRemote(eng_annotation) THEN NotFoundRu
    ELSE IF remote = "ok" THEN Ru(eng_annotation)
    ELSE eng_annotation

\* the row save_to_db binds to INSERT OR IGNORE
Row(article) ==
    [hash |-> article.hash, title_ru |-> article.title_ru,
     annotation_ru |-> article.annotation_ru, authors |-> article.authors,
     published_date |-> article.published_date, url |-> article.link]

HasKey(rows, h) == \E i \in 1..Len(rows) : rows[i].hash = h

\* save_to_db with INSERT OR REPLACE in place of INSERT OR IGNORE
save_to_db_Replace(rows, article, storage_ok) ==
    IF ~storage_ok THEN [raised |-> TRUE, rows |-> rows]
    ELSE [raised |-> FALSE,
          rows |-> Append(SelectSeq(rows, LAMBDA r : r.hash # article.hash), Row(article))]

\* save_to_db inside a try/except that swallows the sqlite3 error
save_to_db_Swallow(rows, article, storage_ok) ==
    IF ~storage_ok THEN [raised |-> FALSE, rows |-> rows]
    ELSE IF HasKey(rows, article.hash) THEN [raised |-> FALSE, rows |-> rows]
    ELSE [raised |-> FALSE, rows |-> Append(rows, Row(article))]

\* save_to_db that drops and recreates the table before the insert
save_to_db_Recreate(rows, article, storage_ok) ==
    IF ~storage_ok THEN [raised |-> TRUE, rows |-> rows]
    ELSE [raised |-> FALSE, rows |-> <<Row(article)>>]

\* save_to_db with a plain INSERT: a present primary key raises IntegrityError
save_to_db_PlainInsert(rows, article, storage_ok) ==
    IF ~storage_ok \/ HasKey(rows, article.hash) THEN [raised |-> TRUE, rows |-> rows]
    ELSE [raised |-> FALSE, rows |-> Append(rows, Row(article))]

\* save_to_db on a table holding rows. storage_ok = FALSE: sqlite3 raises
\* (connect, execute or commit fails) and nothing is committed. Else INSERT OR
\* IGNORE: a row whose primary key is present is dropped without an error.
save_to_db(rows, article, storage_ok) ==
    IF ~storage_ok THEN [raised |-> TRUE, rows |-> rows]
    ELSE IF HasKey(rows, article.hash) THEN [raised |-> FALSE, rows |-> rows]
    ELSE [raised |-> FALSE, rows |-> Append(rows, Row(article))]

\* is_article_new that never finds the row
is_article_new_AlwaysNew(rows, article_hash, storage_ok) ==
    [raised |-> ~storage_ok, result |-> TRUE]

\* is_article_new returning "exists" in place of "not exists"
is_article_new_Inverted(rows, article_hash, storage_ok) ==
    [raised |-> ~storage_ok, result |-> HasKey(rows, article_hash)]

\* is_article_new that catches the sqlite3 error and answers "not new"
is_article_new_Swallow(rows, article_hash, storage_ok) ==
    [raised |-> FALSE, result |-> storage_ok /\ ~HasKey(rows, article_hash)]

\* is_article_new: raises when storage fails, else "not exists"
is_article_new(rows, article_hash, storage_ok) ==
    IF ~storage_ok THEN [raised |-> TRUE, result |-> FALSE]
    ELSE [raised |-> FALSE, result |-> ~HasKey(rows, article_hash)]

\* the message publish_to_telegram builds, with the button's url
Message(article) ==
    [title_ru |-> article.title_ru, published_date |-> article.published_date,
     authors |-> article.authors, annotation_ru |-> article.annotation_ru,
     url |-> article.link]

CsvRow(r) == <<r.hash, r.title_ru, r.annotation_ru, r.authors, r.published_date, r.url>>

\* export_db_to_csv reading the rows with ORDER BY rowid DESC
export_db_to_csv_Reversed(rows, file, storage_ok) ==
    IF ~storage_ok THEN [raised |-> TRUE, file |-> file]
    ELSE [raised |-> FALSE,
          file |-> <<CsvHeader>> \o [i \in 1..Len(rows) |-> CsvRow(rows[Len(rows) + 1 - i])]]

\* export_db_to_csv: raises when storage fails (file is what the file held
\* before), else writes the header row, then every row of the table
export_db_to_csv(rows, file, storage_ok) ==
    IF ~storage_ok THEN [raised |-> TRUE, file |-> file]
    ELSE [raised |-> FALSE, file |-> <<CsvHeader>> \o [i \in 1..Len(rows) |-> CsvRow(rows[i])]]

----------------------------------------------------------------------------
(* State machine *)

Event(i, op) == [i |-> i, op |-> op]

\* the environment's part of a storage call: the failure of the store, if any
StorageEvents(i, storage_ok, call) ==
    IF storage_ok THEN <<>> ELSE <<Event(i, "storage error in " \o call)>>

\* outcomes of a call of the translation service
RemoteOutcomes == {"ok", "error"}

article == articles[idx]

SetArticle(key, value) == [articles EXCEPT ![idx] = Put(article, key, value)]

\* value of feed while no run of main is in progress
NoFeed == [bozo |-> FALSE, entries |-> <<>>]

Init ==
    /\ pc = "idle"
    /\ polls = 0
    /\ exports = 0
    /\ feed = NoFeed
    /\ articles = <<>>
    /\ idx = 0
    /\ page_html = EmptyHtml
    /\ raw_annotation = <<>>
    /\ ledger = <<>>
    /\ published = <<>>
    /\ saves = <<>>
    /\ runLog = <<>>
    /\ csvFile = <<>>
    /\ documents = <<>>

\* main started at its due time whatever else is running, as a scheduler
\* that gives each job a thread of its own would do
StartMain_Threaded(f) ==
    /\ polls < MaxPolls
    /\ polls' = polls + 1
    /\ feed' = f
    /\ articles' = parse_rss(f)
    /\ idx' = IF parse_rss(f) = <<>> THEN 0 ELSE 1
    /\ pc' = IF parse_rss(f) = <<>> THEN "returned" ELSE "hash"
    /\ runLog' = <<Event(0, "parse_rss")>>
    /\ page_html' = EmptyHtml
    /\ raw_annotation' = <<>>
    /\ UNCHANGED <<exports, ledger, published, saves, csvFile, documents>>

\* schedule.run_pending() finds main due: main() starts, calls parse_rss() and
\* enters its for loop (an empty list ends the run at once).
StartMain(f) ==
    /\ pc = "idle"
    /\ polls < MaxPolls
    /\ polls' = polls + 1
    /\ feed' = f
    /\ articles' = parse_rss(f)
    /\ idx' = IF parse_rss(f) = <<>> THEN 0 ELSE 1
    /\ pc' = IF parse_rss(f) = <<>> THEN "returned" ELSE "hash"
    /\ runLog' = <<Event(0, "parse_rss")>>
    /\ page_html' = EmptyHtml
    /\ raw_annotation' = <<>>
    /\ UNCHANGED <<exports, ledger, published, saves, csvFile, documents>>

\* main line 288
ComputeHash ==
    /\ pc = "hash"
    /\ articles' = SetArticle("hash", Fingerprint(article.title, article.link))
    /\ runLog' = Append(runLog, Event(idx, "hash"))
    /\ pc' = "check"
    /\ UNCHANGED <<polls, exports, feed, idx, page_html, raw_annotation, ledger,
                   published, saves, csvFile, documents>>

\* the for loop of main moves to the next article, or main returns
Advance == 
    /\ idx' = IF idx < Len(articles) THEN idx + 1 ELSE idx
    /\ pc' = IF idx < Len(articles) THEN "hash" ELSE "returned"
    /\ page_html' = EmptyHtml
    /\ raw_annotation' = <<>>

\* an exception leaves main, schedule.run_pending() and the while loop of the
\* script: the process ends
Raise == pc' = "crashed"

\* main lines 291-293: is_article_new raises (sqlite3 error), says "not new"
\* (continue) or says "new"
CheckNew(storage_ok) ==
    /\ pc = "check"
    /\ IF is_article_new(ledger, article.hash, storage_ok).raised
       THEN /\ Raise
            /\ runLog' = runLog \o StorageEvents(idx, storage_ok, "is_article_new")
                                \o <<Event(idx, "is_article_new raised")>>
            /\ UNCHANGED <<idx, page_html, raw_annotation>>
       ELSE IF ~is_article_new(ledger, article.hash, storage_ok).result
       THEN /\ Advance
            /\ runLog' = runLog \o StorageEvents(idx, storage_ok, "is_article_new")
                                \o <<Event(idx, "skip")>>
       ELSE /\ pc' = "title"
            /\ runLog' = runLog \o StorageEvents(idx, storage_ok, "is_article_new")
                                \o <<Event(idx, "new")>>
            /\ UNCHANGED <<idx, page_html, raw_annotation>>
    /\ UNCHANGED <<polls, exports, feed, articles, ledger, published, saves, csvFile, documents>>

\* main line 296
TranslateTitle(remote) ==
    /\ pc = "title"
    /\ articles' = SetArticle("title_ru", translate_title_openai(article.title, remote))
    /\ runLog' = runLog \o (IF TitleCallsRemote(article.title)
                            THEN <<Event(idx, "openai title " \o remote)>> ELSE <<>>)
                        \o <<Event(idx, "translate_title")>>
    /\ pc' = "fetch"
    /\ UNCHANGED <<polls, exports, feed, idx, page_html, raw_annotation, ledger,
                   published, saves, csvFile, documents>>

\* main line 299
FetchPage(response) ==
    /\ pc = "fetch"
    /\ page_html' = fetch_annotation(response)
    /\ runLog' = Append(runLog, Event(idx, IF response.ok THEN "fetch" ELSE "fetch failed"))
    /\ pc' = "clean"
    /\ UNCHANGED <<polls, exports, feed, articles, idx, raw_annotation, ledger,
                   published, saves, csvFile, documents>>

\* main line 302
CleanAnnotation ==
    /\ pc = "clean"
    /\ raw_annotation' = clean_annotation(page_html)
    /\ runLog' = Append(runLog, Event(idx, "clean_annotation"))
    /\ pc' = "annotation"
    /\ UNCHANGED <<polls, exports, feed, articles, idx, page_html, ledger,
                   published, saves, csvFile, documents>>

\* main with line 306 (save_to_db) left out
TranslateAnnotation_ThenPublish(remote) ==
    /\ pc = "annotation"
    /\ articles' = SetArticle("annotation_ru", translate_annotation_openai(raw_annotation, remote))
    /\ runLog' = runLog \o (IF AnnotationCallsRemote(raw_annotation)
                            THEN <<Event(idx, "openai annotation " \o remote)>> ELSE <<>>)
                        \o <<Event(idx, "translate_annotation")>>
    /\ pc' = "publish"
    /\ UNCHANGED <<polls, exports, feed, idx, page_html, raw_annotation, ledger,
                   published, saves, csvFile, documents>>

\* main line 303
TranslateAnnotation(remote) ==
    /\ pc = "annotation"
    /\ articles' = SetArticle("annotation_ru", translate_annotation_openai(raw_annotation, remote))
    /\ runLog' = runLog \o (IF AnnotationCallsRemote(raw_annotation)
                            THEN <<Event(idx, "openai annotation " \o remote)>> ELSE <<>>)
                        \o <<Event(idx, "translate_annotation")>>
    /\ pc' = "save"
    /\ UNCHANGED <<polls, exports, feed, idx, page_html, raw_annotation, ledger,
                   published, saves, csvFile, documents>>

\* main line 306: save_to_db raises (nothing is committed) or returns
SaveToDb(storage_ok) ==
    /\ pc = "save"
    /\ ledger' = save_to_db(ledger, article, storage_ok).rows
    /\ IF save_to_db(ledger, article, storage_ok).raised
       THEN /\ Raise
            /\ runLog' = runLog \o StorageEvents(idx, storage_ok, "save_to_db")
                                \o <<Event(idx, "save_to_db raised")>>
            /\ UNCHANGED saves
       ELSE /\ saves' = Append(saves, article)
            /\ runLog' = runLog \o StorageEvents(idx, storage_ok, "save_to_db")
                                \o <<Event(idx, "save_to_db")>>
            /\ pc' = "publish"
    /\ UNCHANGED <<polls, exports, feed, articles, idx, page_html, raw_annotation,
                   published, csvFile, documents>>

\* main lines 309-310: publish_to_telegram hands the message to
\* bot.send_message; an exception of the delivery is caught and logged
Publish(delivered) ==
    /\ pc = "publish"
    /\ published' = Append(published, [hash |-> article.hash, message |-> Message(article),
                                       delivered |-> delivered])
    /\ runLog' = Append(runLog, Event(idx, IF delivered THEN "publish" ELSE "publish failed"))
    /\ Advance
    /\ UNCHANGED <<polls, exports, feed, articles, ledger, saves, csvFile, documents>>

\* schedule.run_pending() finds send_csv_to_telegram due: export_db_to_csv
\* runs (line 348, outside the try) and raises or writes the file
StartExport(storage_ok) ==
    /\ pc = "idle"
    /\ exports < MaxExports
    /\ exports' = exports + 1
    /\ csvFile' = export_db_to_csv(ledger, csvFile, storage_ok).file
    /\ IF export_db_to_csv(ledger, csvFile, storage_ok).raised
       THEN /\ Raise
            /\ runLog' = StorageEvents(0, storage_ok, "export_db_to_csv")
                          \o <<Event(0, "export_db_to_csv raised")>>
       ELSE /\ runLog' = StorageEvents(0, storage_ok, "export_db_to_csv")
                          \o <<Event(0, "export_db_to_csv")>>
            /\ pc' = "send_document"
    /\ UNCHANGED <<polls, feed, articles, idx, page_html, raw_annotation, ledger,
                   published, saves, documents>>

\* send_csv_to_telegram lines 349-357: the file goes to bot.send_document; an
\* exception of the delivery is caught and logged
SendDocument(delivered) ==
    /\ pc = "send_document"
    /\ documents' = Append(documents, csvFile)
    /\ runLog' = Append(runLog, Event(0, IF delivered THEN "send_document" ELSE "send_document failed"))
    /\ pc' = "returned"
    /\ UNCHANGED <<polls, exports, feed, articles, idx, page_html, raw_annotation,
                   ledger, published, saves, csvFile>>

\* The job returned: run_pending() returns to the while loop of the script,
\* which sleeps (lines 368-370). The locals of the finished run are gone.
Sleep ==
    /\ pc = "returned"
    /\ pc' = "idle"
    /\ feed' = NoFeed
    /\ articles' = <<>>
    /\ idx' = 0
    /\ page_html' = EmptyHtml
    /\ raw_annotation' = <<>>
    /\ runLog' = <<>>
    /\ UNCHANGED <<polls, exports, ledger, published, saves, csvFile, documents>>

Next ==
    \/ \E f \in Feeds : StartMain(f)
    \/ ComputeHash
    \/ \E storage_ok \in BOOLEAN : CheckNew(storage_ok)
    \/ \E remote \in RemoteOutcomes : TranslateTitle(remote)
    \/ \E response \in Responses : FetchPage(response)
    \/ CleanAnnotation
    \/ \E remote \in RemoteOutcomes : TranslateAnnotation(remote)
    \/ \E storage_ok \in BOOLEAN : SaveToDb(storage_ok)
    \/ \E delivered \in BOOLEAN : Publish(delivered)
    \/ \E storage_ok \in BOOLEAN : StartExport(storage_ok)
    \/ \E delivered \in BOOLEAN : SendDocument(delivered)
    \/ Sleep

Spec == Init /\ [][Next]_vars

----------------------------------------------------------------------------
(* The ledger on its own: save_to_db called directly, any article, any key *)

\* the dict main holds at line 306 for raw entry e, when the title call
\* ended r1, the page request gave response and the annotation call ended r2
Processed(e, r1, response, r2) ==
    LET a0 == ParseEntry(e)
        a1 == Put(a0, "hash", Fingerprint(a0.title, a0.link))
        a2 == Put(a1, "title_ru", translate_title_openai(a1.title, r1))
    IN Put(a2, "annotation_ru",
           translate_annotation_openai(clean_annotation(fetch_annotation(response)), r2))

SaveArgs == {Processed(e, r1, response, r2) :
                e \in FeedEntries, r1 \in RemoteOutcomes,
                response \in Responses, r2 \in RemoteOutcomes}

LedgerSave(a, storage_ok) ==
    /\ pc = "idle"
    /\ Len(saves) < MaxSaves
    /\ ledger' = save_to_db(ledger, a, storage_ok).rows
    /\ IF save_to_db(ledger, a, storage_ok).raised
       THEN /\ Raise
            /\ runLog' = runLog \o StorageEvents(0, storage_ok, "save_to_db")
                                \o <<Event(0, "save_to_db raised")>>
            /\ UNCHANGED saves
       ELSE /\ saves' = Append(saves, a)
            /\ runLog' = runLog \o StorageEvents(0, storage_ok, "save_to_db")
                                \o <<Event(0, "save_to_db")>>
            /\ UNCHANGED pc
    /\ UNCHANGED <<polls, exports, feed, articles, idx, page_html, raw_annotation,
                   published, csvFile, documents>>

NextLedger == \E a \in SaveArgs, storage_ok \in BOOLEAN : LedgerSave(a, storage_ok)

SpecLedger == Init /\ [][NextLedger]_vars

----------------------------------------------------------------------------
(* Two runs of main at once on one database file (two copies of the script),
   each at the same entry of the feed, interleaved step by step. Here pc and
   articles hold one position and one article per run. The steps between the
   novelty check and the insert (lines 296-303) touch only locals of the run
   and are one step. *)

Runs == {1, 2}

InitRace ==
    /\ \E e \in FeedEntries :
          /\ feed = [bozo |-> FALSE, entries |-> <<e>>]
          /\ articles = [p \in Runs |->
                            Put(ParseEntry(e), "hash",
                                Fingerprint(ParseEntry(e).title, ParseEntry(e).link))]
    /\ pc = [p \in Runs |-> "check"]
    /\ polls = 2
    /\ exports = 0
    /\ idx = 1
    /\ page_html = EmptyHtml
    /\ raw_annotation = <<>>
    /\ ledger = <<>>
    /\ published = <<>>
    /\ saves = <<>>
    /\ runLog = <<>>
    /\ csvFile = <<>>
    /\ documents = <<>>

\* main lines 291-293 in run p
RaceCheck(p, storage_ok) ==
    /\ pc[p] = "check"
    /\ pc' = [pc EXCEPT ![p] =
                IF is_article_new(ledger, articles[p].hash, storage_ok).raised THEN "crashed"
                ELSE IF is_article_new(ledger, articles[p].hash, storage_ok).result THEN "title"
                ELSE "returned"]
    /\ runLog' = runLog \o StorageEvents(p, storage_ok, "is_article_new")
                        \o <<Event(p, IF is_article_new(ledger, articles[p].hash, storage_ok).raised
                                      THEN "is_article_new raised"
                                      ELSE IF is_article_new(ledger, articles[p].hash, storage_ok).result
                                      THEN "new" ELSE "skip")>>
    /\ UNCHANGED <<polls, exports, feed, articles, idx, page_html, raw_annotation,
                   ledger, published, saves, csvFile, documents>>

\* main lines 296-303 in run p
RaceProcess(p, r1, response, r2) ==
    /\ pc[p] = "title"
    /\ articles' = [articles EXCEPT ![p] = Processed(feed.entries[1], r1, response, r2)]
    /\ pc' = [pc EXCEPT ![p] = "save"]
    /\ runLog' = Append(runLog, Event(p, "translate_annotation"))
    /\ UNCHANGED <<polls, exports, feed, idx, page_html, raw_annotation,
                   ledger, published, saves, csvFile, documents>>

\* main line 306 in run p: the INSERT OR IGNORE is one statement of sqlite
RaceSave(p, storage_ok) ==
    /\ pc[p] = "save"
    /\ ledger' = save_to_db(ledger, articles[p], storage_ok).rows
    /\ IF save_to_db(ledger, articles[p], storage_ok).raised
       THEN /\ pc' = [pc EXCEPT ![p] = "crashed"]
            /\ runLog' = runLog \o StorageEvents(p, storage_ok, "save_to_db")
                                \o <<Event(p, "save_to_db raised")>>
            /\ UNCHANGED saves
       ELSE /\ pc' = [pc EXCEPT ![p] = "publish"]
            /\ saves' = Append(saves, articles[p])
            /\ runLog' = runLog \o StorageEvents(p, storage_ok, "save_to_db")
                                \o <<Event(p, "save_to_db")>>
    /\ UNCHANGED <<polls, exports, feed, articles, idx, page_html, raw_annotation,
                   published, csvFile, documents>>

\* main line 309 in run p, after which the one-entry list is exhausted
RacePublish(p, delivered) ==
    /\ pc[p] = "publish"
    /\ published' = Append(published, [hash |-> articles[p].hash,
                                       message |-> Message(articles[p]),
                                       delivered |-> delivered])
    /\ pc' = [pc EXCEPT ![p] = "returned"]
    /\ runLog' = Append(runLog, Event(p, IF delivered THEN "publish" ELSE "publish failed"))
    /\ UNCHANGED <<polls, exports, feed, articles, idx, page_html, raw_annotation,
                   ledger, saves, csvFile, documents>>

NextRace ==
    \/ \E p \in Runs, storage_ok \in BOOLEAN : RaceCheck(p, storage_ok)
    \/ \E p \in Runs, r1 \in RemoteOutcomes, response \in Responses, r2 \in RemoteOutcomes :
          RaceProcess(p, r1, response, r2)
    \/ \E p \in Runs, storage_ok \in BOOLEAN : RaceSave(p, storage_ok)
    \/ \E p \in Runs, delivered \in BOOLEAN : RacePublish(p, delivered)

SpecRace == InitRace /\ [][NextRace]_vars

----------------------------------------------------------------------------
(* The translate functions on their own: called directly on any text, and on
   what clean_annotation extracts from any page (main lines 302-303) *)

\* a page whose abstract container is empty
PageEmptyAbstract == << [class |-> "Abstracts", frags |-> <<>>] >>

TranslateInputs == {<<>>, NoTitle, NotFound, DefaultTitle, <<"a">>, <<"X">>}

CleanInputs == Pages \cup {EmptyHtml, PageEmptyAbstract}

\* one call: the function, its argument, whether it called the remote
\* service, how that call ended, what the function returned
Call(fn, input, called, remote, result) ==
    [i |-> 0, op |-> fn, input |-> input, called |-> called, remote |-> remote,
     result |-> result]

Record(call) ==
    /\ pc = "idle"
    /\ Len(runLog) < MaxCalls
    /\ runLog' = Append(runLog, call)
    /\ UNCHANGED <<pc, polls, exports, feed, articles, idx, page_html, raw_annotation,
                   ledger, published, saves, csvFile, documents>>

CallTranslateTitle(text, remote) ==
    Record(Call("translate_title_openai", text, TitleCallsRemote(text), remote,
                translate_title_openai(text, remote)))

CallTranslateAnnotation(text, remote) ==
    Record(Call("translate_annotation_openai", text, AnnotationCallsRemote(text), remote,
                translate_annotation_openai(text, remote)))

\* main lines 302-303 on the page text html
CallCleanAndTranslate(html, remote) ==
    Record(Call("translate_annotation_openai", clean_annotation(html),
                AnnotationCallsRemote(clean_annotation(html)), remote,
                translate_annotation_openai(clean_annotation(html), remote)))

NextTranslate ==
    \/ \E text \in TranslateInputs, remote \in RemoteOutcomes : CallTranslateTitle(text, remote)
    \/ \E text \in TranslateInputs, remote \in RemoteOutcomes : CallTranslateAnnotation(text, remote)
    \/ \E html \in CleanInputs, remote \in RemoteOutcomes : CallCleanAndTranslate(html, remote)

SpecTranslate == Init /\ [][NextTranslate]_vars

----------------------------------------------------------------------------
(* clean_annotation on its own: main line 302 on any page of two families *)

TextTokens == {"X", " ", "\n", "Graphical", "abstract"}

\* what follows the marker: plain text, or text with a second marker
TextsAfter == {<<"Y">>, <<"Y", " ">> \o Marker \o <<" ", "Z">>}

\* A page whose "Abstracts" container reads x, the marker, y: as one text
\* fragment, or with x in a fragment (a tag) of its own.
TruncatePage(x, y, layout) ==
    << [class |-> "other", frags |-> << <<"menu">> >>],
       [class |-> "Abstracts",
        frags |-> IF layout = "one fragment"
                  THEN << x \o <<" ">> \o Marker \o <<" ">> \o y >>
                  ELSE << x, Marker \o <<" ">> \o y >>] >>

DivClasses == {"Abstracts", "svAbstract", "abstract author", "other"}

DivNames == <<"T1", "T2", "T3", "T4", "T5">>

\* A page of divs with the classes cs, in this order; the k-th div reads DivNames[k].
PriorityPage(cs) == [k \in 1..Len(cs) |-> [class |-> cs[k], frags |-> << <<DivNames[k]>> >>]]

InitClean ==
    /\ pc = "clean"
    /\ polls = 0
    /\ exports = 0
    /\ feed = NoFeed
    /\ articles = <<>>
    /\ idx = 0
    /\ raw_annotation = <<>>
    /\ ledger = <<>>
    /\ published = <<>>
    /\ saves = <<>>
    /\ csvFile = <<>>
    /\ documents = <<>>
    /\ \/ \E x \in SeqsUpTo(TextTokens, MaxTextLen), y \in TextsAfter,
             layout \in {"one fragment", "two fragments"} :
             /\ page_html = TruncatePage(x, y, layout)
             /\ runLog = <<[i |-> 0, op |-> "truncate page", x |-> x, y |-> y]>>
       \/ \E cs \in SeqsUpTo(DivClasses, MaxDivs) :
             /\ page_html = PriorityPage(cs)
             /\ runLog = <<[i |-> 0, op |-> "priority page", x |-> <<>>, y |-> <<>>]>>

SpecClean == InitClean /\ [][CleanAnnotation]_vars

----------------------------------------------------------------------------
(* Properties *)

\* the operations logged for article i
OpsIn(log, i) == {log[k].op : k \in {n \in 1..Len(log) : log[n].i = i}}

HasEvent(i, op) == \E k \in 1..Len(runLog) : runLog[k] = Event(i, op)

\* C1: publish_to_telegram is called at most once per fingerprint, whatever
\* the deliveries did; the record of a failed delivery stays in the ledger.
C1_PublishAtMostOnce ==
    /\ \A i, j \in 1..Len(published) : published[i].hash = published[j].hash => i = j
    /\ \A i \in 1..Len(published) : HasKey(ledger, published[i].hash)

\* C1 witness: a later poll skips an entry whose delivery failed before.
C1_Witness ==
    /\ polls = 2
    /\ \E i \in 1..Len(published), j \in 1..Len(articles) :
          /\ ~published[i].delivered
          /\ HasEvent(j, "skip")
          /\ articles[j].hash = published[i].hash

\* C2: the novelty check skips an entry exactly when its fingerprint is in
\* the ledger, and the skip does nothing else: no fetch, no translation, no
\* ledger write, no publish.
C2_SkipIffInLedger ==
    [][(pc = "check" /\ pc' # "crashed") =>
        LET skipped == runLog' = Append(runLog, Event(idx, "skip"))
        IN /\ skipped <=> \E i \in 1..Len(ledger) : ledger[i].hash = article.hash
           /\ skipped =>
                /\ UNCHANGED <<ledger, published, saves, articles, csvFile, documents>>
                /\ pc' \in {"hash", "returned"}
                /\ OpsIn(runLog', idx) = {"hash", "skip"}]_vars

\* C2 witness: a second poll over a feed whose two entries are in the ledger
\* has returned with both skipped.
C2_Witness ==
    /\ pc = "returned"
    /\ polls = 2
    /\ Len(articles) = 2
    /\ \A i \in 1..2 : OpsIn(runLog, i) = {"hash", "skip"}
    /\ articles[1].hash # articles[2].hash

\* C3: after any calls of save_to_db the table holds, for every key saved,
\* exactly one row, equal in every column to the first article saved with
\* that key, and a call on a present key raises nothing.
C3_FirstWriteWins ==
    /\ \A k \in 1..Len(saves) :
        LET f == saves[k].hash
            first == CHOOSE m \in 1..k :
                        saves[m].hash = f /\ \A n \in 1..(m - 1) : saves[n].hash # f
            hits == {i \in 1..Len(ledger) : ledger[i].hash = f}
        IN /\ Cardinality(hits) = 1
           /\ \A i \in hits :
                /\ ledger[i].title_ru = saves[first].title_ru
                /\ ledger[i].annotation_ru = saves[first].annotation_ru
                /\ ledger[i].authors = saves[first].authors
                /\ ledger[i].published_date = saves[first].published_date
                /\ ledger[i].url = saves[first].link
    /\ HasEvent(0, "save_to_db raised") => HasEvent(0, "storage error in save_to_db")

\* C3 witness: two calls with one key and different columns have returned.
C3_Witness ==
    /\ Len(saves) = 2
    /\ saves[1].hash = saves[2].hash
    /\ saves[1].title_ru # saves[2].title_ru
    /\ saves[1].link # saves[2].link
    /\ pc = "idle"

\* C4: when a run of main has ended, every article of the poll has been
\* processed, whatever failed for the articles before it.
C4_PerItemIsolation ==
    pc \in {"returned", "crashed"} => \A i \in 1..Len(articles) : OpsIn(runLog, i) # {}

\* C5: every message handed to the channel is for a fingerprint with a ledger
\* row, and carries that row's title, abstract, link, authors and date.
C5_PublishedIsPersisted ==
    \A k \in 1..Len(published) :
        \E i \in 1..Len(ledger) :
            /\ ledger[i].hash = published[k].hash
            /\ ledger[i].title_ru = published[k].message.title_ru
            /\ ledger[i].annotation_ru = published[k].message.annotation_ru
            /\ ledger[i].url = published[k].message.url
            /\ ledger[i].authors = published[k].message.authors
            /\ ledger[i].published_date = published[k].message.published_date

\* C5 witness: two articles have been published, one delivery failed.
C5_Witness ==
    /\ Len(published) = 2
    /\ ~published[1].delivered
    /\ published[2].delivered
    /\ published[1].message.title_ru # published[2].message.title_ru

\* C6: a storage failure inside is_article_new or save_to_db is raised to the
\* caller and ends the run there: the entry is neither skipped as a
\* duplicate nor taken as new, nor saved, nor published.
C6_StorageFailurePropagates ==
    \A k \in 1..Len(runLog) :
        LET i == runLog[k].i
        IN /\ runLog[k].op = "storage error in is_article_new" =>
                /\ pc = "crashed"
                /\ k + 1 = Len(runLog)
                /\ runLog[k + 1] = Event(i, "is_article_new raised")
                /\ OpsIn(runLog, i) \cap {"skip", "new", "fetch", "fetch failed", "save_to_db",
                                          "publish", "publish failed"} = {}
           /\ runLog[k].op = "storage error in save_to_db" =>
                /\ pc = "crashed"
                /\ k + 1 = Len(runLog)
                /\ runLog[k + 1] = Event(i, "save_to_db raised")
                /\ OpsIn(runLog, i) \cap {"save_to_db", "publish", "publish failed"} = {}
                /\ \A n \in 1..Len(ledger) : ledger[n].hash # articles[i].hash
                /\ \A n \in 1..Len(published) : published[n].hash # articles[i].hash

\* C6 witness: save_to_db failed for the second article of a poll.
C6_Witness ==
    /\ HasEvent(2, "storage error in save_to_db")
    /\ HasEvent(1, "publish")

\* C7: after a storage failure before the persist step the scheduler is still
\* running, so that the next poll can take the entry up again.
C7_FailedEntryRetriedNextPoll ==
    (\E k \in 1..Len(runLog) : runLog[k].op = "storage error in is_article_new")
        => pc # "crashed"

\* C8: every step leaves the rows of the ledger in place and unchanged; a row
\* is added only by main's save step, at the end, for the article in hand,
\* after its novelty check found the key absent and after both translations.
C8_LedgerAppendOnly ==
    [][/\ Len(ledger') >= Len(ledger)
       /\ SubSeq(ledger', 1, Len(ledger)) = ledger
       /\ ledger' # ledger =>
            /\ pc = "save"
            /\ Len(ledger') = Len(ledger) + 1
            /\ ledger'[Len(ledger')].hash = article.hash
            /\ ledger'[Len(ledger')].title_ru = article.title_ru
            /\ ledger'[Len(ledger')].annotation_ru = article.annotation_ru
            /\ \A n \in 1..Len(ledger) : ledger[n].hash # article.hash
            /\ {"new", "translate_title", "clean_annotation", "translate_annotation"}
                  \subseteq OpsIn(runLog, idx)]_vars

\* C8 witness: an export handed over a one-row table, and a later poll added
\* a second row.
C8_Witness ==
    /\ Len(ledger) = 2
    /\ Len(documents) = 1
    /\ Len(documents[1]) = 2

\* C9: a poll whose feed is marked bozo or has no entries gets an empty list
\* from parse_rss and returns at once: no ledger write, no fetch, no
\* translation, no publish.
C9_BadFeedAbortsPoll ==
    [][(pc = "idle" /\ polls' = polls + 1 /\ (feed'.bozo \/ feed'.entries = <<>>)) =>
          /\ pc' = "returned"
          /\ articles' = <<>>
          /\ runLog' = <<Event(0, "parse_rss")>>
          /\ UNCHANGED <<ledger, published, saves, csvFile, documents>>]_vars

\* C9 witness: a poll over a bozo feed with entries, none of them in the
\* ledger, has returned.
C9_Witness ==
    /\ pc = "returned"
    /\ feed.bozo
    /\ Len(feed.entries) = 2
    /\ ledger = <<>>
    /\ polls = 2

\* C10: after a failed page fetch the page text is empty, clean_annotation
\* gives the "not found" sentinel, the translated abstract is the fixed
\* placeholder, and the entry is saved and published with it before the loop
\* moves on.
C10_FetchFailureDegrades ==
    \A i \in 1..Len(articles) :
        HasEvent(i, "fetch failed") =>
            /\ (idx = i /\ pc = "clean") => page_html = EmptyHtml
            /\ (idx = i /\ pc = "annotation") => raw_annotation = NotFound
            /\ "translate_annotation" \in OpsIn(runLog, i) =>
                    articles[i].annotation_ru = NotFoundRu
            /\ "save_to_db" \in OpsIn(runLog, i) =>
                    \E n \in 1..Len(ledger) :
                        ledger[n].hash = articles[i].hash /\ ledger[n].annotation_ru = NotFoundRu
            /\ OpsIn(runLog, i) \cap {"publish", "publish failed"} # {} =>
                    \E n \in 1..Len(published) :
                        /\ published[n].hash = articles[i].hash
                        /\ published[n].message.annotation_ru = NotFoundRu
            /\ (idx > i \/ pc = "returned") =>
                    /\ "save_to_db" \in OpsIn(runLog, i)
                    /\ OpsIn(runLog, i) \cap {"publish", "publish failed"} # {}

\* C10 witness: a poll has returned in which the fetch failed for the first
\* article and the article was saved and published.
C10_Witness ==
    /\ pc = "returned"
    /\ HasEvent(1, "fetch failed")
    /\ HasEvent(1, "save_to_db")
    /\ HasEvent(1, "publish")
    /\ Len(articles) = 2

\* C11: when the remote call fails for the title, title_ru is the original
\* title; when it fails for the abstract, annotation_ru is the original
\* abstract; a field whose call succeeded holds the translation whatever the
\* other did; and the entry is saved and published with these fields before
\* the loop moves on.
C11_TranslationFailureDegrades ==
    \A i \in 1..Len(articles) :
        LET ops == OpsIn(runLog, i)
            a == articles[i]
            here == idx = i /\ pc \in {"save", "publish"}
        IN /\ ("openai title error" \in ops /\ "translate_title" \in ops) => a.title_ru = a.title
           /\ ("openai title ok" \in ops /\ "translate_title" \in ops) => a.title_ru = Ru(a.title)
           /\ ("openai annotation error" \in ops /\ here) => a.annotation_ru = raw_annotation
           /\ ("openai annotation ok" \in ops /\ here) => a.annotation_ru = Ru(raw_annotation)
           /\ (ops \cap {"openai title error", "openai annotation error"} # {}
                 /\ "save_to_db" \in ops) =>
                \E n \in 1..Len(ledger) :
                    /\ ledger[n].hash = a.hash
                    /\ ledger[n].title_ru = a.title_ru
                    /\ ledger[n].annotation_ru = a.annotation_ru
           /\ (ops \cap {"openai title error", "openai annotation error"} # {}
                 /\ ops \cap {"publish", "publish failed"} # {}) =>
                \E n \in 1..Len(published) :
                    /\ published[n].hash = a.hash
                    /\ published[n].message.title_ru = a.title_ru
                    /\ published[n].message.annotation_ru = a.annotation_ru
           /\ (ops \cap {"openai title error", "openai annotation error"} # {}
                 /\ (idx > i \/ pc = "returned")) =>
                /\ "save_to_db" \in ops
                /\ ops \cap {"publish", "publish failed"} # {}

\* C11 witness: a poll has returned in which the title call failed and the
\* abstract call succeeded for the first article, and the article was saved
\* and published with the original title and the translated abstract.
C11_Witness ==
    /\ pc = "returned"
    /\ HasEvent(1, "openai title error")
    /\ HasEvent(1, "openai annotation ok")
    /\ HasEvent(1, "publish")
    /\ \E n \in 1..Len(ledger) :
          /\ ledger[n].title_ru = articles[1].title
          /\ ledger[n].annotation_ru = Ru(<<"X">>)

\* C12: a translate function given the empty text or its "no content"
\* sentinel returns its fixed placeholder and does not call the remote
\* service; so no remote call is made for an abstract that clean_annotation
\* reported as not found.
C12_TranslatorShortCircuit ==
    \A k \in 1..Len(runLog) :
        LET c == runLog[k]
        IN /\ (c.op = "translate_title_openai" /\ c.input \in {<<>>, <<"No Title">>}) =>
                (~c.called /\ c.result = <<"Net zagolovka">>)
           /\ (c.op = "translate_annotation_openai"
                 /\ c.input \in {<<>>, <<"Annotation not found.">>}) =>
                (~c.called /\ c.result = <<"Annotatsiya ne naidena.">>)

\* C12 witness: clean_annotation found no container, and the abstract
\* translation that followed returned the placeholder; an empty title was
\* translated as well.
C12_Witness ==
    /\ Len(runLog) = 2
    /\ runLog[1].op = "translate_annotation_openai"
    /\ runLog[1].input = clean_annotation(PageNoAbstract)
    /\ runLog[1].input = NotFound
    /\ runLog[1].remote = "ok"
    /\ runLog[2].op = "translate_title_openai"
    /\ runLog[2].input = <<>>

\* C13: two articles of a poll that differ in title or link have different
\* fingerprints.
C13_DistinctPairsDistinctFingerprints ==
    \A i, j \in 1..Len(articles) :
        ("hash" \in DOMAIN articles[i] /\ "hash" \in DOMAIN articles[j]
            /\ <<articles[i].title, articles[i].link>> # <<articles[j].title, articles[j].link>>)
        => articles[i].hash # articles[j].hash

\* the file that holds the header row, then one row per row of the table, in
\* table order
IsSnapshot(file, rows) ==
    /\ Len(file) = Len(rows) + 1
    /\ file[1] = <<"Hash", "Russian Title", "Russian Annotation", "Authors",
                   "Publication Date", "URL">>
    /\ \A n \in 1..Len(rows) :
          file[n + 1] = <<rows[n].hash, rows[n].title_ru, rows[n].annotation_ru,
                          rows[n].authors, rows[n].published_date, rows[n].url>>

\* C14: an export run writes the header row and one row per ledger row, in
\* insertion order, hands that file to bot.send_document once, and leaves the
\* ledger as it was; no other step hands over a file.
C14_ExportIsFullSnapshot ==
    [][/\ (pc = "idle" /\ exports' = exports + 1 /\ pc' # "crashed") =>
            /\ pc' = "send_document"
            /\ IsSnapshot(csvFile', ledger)
            /\ UNCHANGED <<ledger, documents>>
       /\ pc = "send_document" =>
            /\ IsSnapshot(csvFile, ledger)
            /\ documents' = Append(documents, csvFile)
            /\ pc' = "returned"
            /\ UNCHANGED <<ledger, csvFile>>
       /\ documents' # documents => pc = "send_document"
       /\ Len(documents') <= exports']_vars

\* C14 witness: an export run over a ledger of two rows has returned, and the
\* file it handed over has three rows.
C14_Witness ==
    /\ pc = "returned"
    /\ Len(ledger) = 2
    /\ Len(documents) = 1
    /\ Len(documents[1]) = 3
    /\ HasEvent(0, "send_document")

\* the words of t joined by single spaces: " ".join(t.split())
RECURSIVE JoinWords(_, _, _)
JoinWords(t, out, gap) ==
    IF t = <<>> THEN out
    ELSE IF Head(t) \in {" ", "\n"} THEN JoinWords(Tail(t), out, TRUE)
    ELSE JoinWords(Tail(t),
                   IF gap /\ out # <<>> THEN out \o <<" ", Head(t)>> ELSE Append(out, Head(t)),
                   FALSE)

ContainsMarker(t) ==
    \E n \in 1..Len(t) :
        n + 2 <= Len(t) /\ t[n] = "Graphical" /\ t[n + 1] = " " /\ t[n + 2] = "abstract"

\* C15: for a page whose "Abstracts" container reads X, "Graphical abstract",
\* Y (X without the marker), clean_annotation returns X trimmed and with its
\* whitespace runs collapsed to single spaces, and nothing of the marker or
\* of Y.
C15_TruncatesAtGraphicalAbstract ==
    (pc = "annotation" /\ runLog[1].op = "truncate page" /\ ~ContainsMarker(runLog[1].x)) =>
        /\ raw_annotation = JoinWords(runLog[1].x, <<>>, FALSE)
        /\ \A n \in 1..Len(raw_annotation) : raw_annotation[n] \notin {"Y", "Z", "\n"}

\* C15 witness: X had leading, trailing and repeated whitespace, and Y held a
\* second marker.
C15_Witness ==
    /\ pc = "annotation"
    /\ runLog[1].op = "truncate page"
    /\ runLog[1].x = <<" ", "X", "\n">>
    /\ Len(runLog[1].y) > 1
    /\ raw_annotation = <<"X">>

\* first div of the page with class cls, 0 when there is none
FirstOfClass(page, cls) ==
    IF \E k \in 1..Len(page) : page[k].class = cls
    THEN CHOOSE k \in 1..Len(page) :
            page[k].class = cls /\ \A m \in 1..(k - 1) : page[m].class # cls
    ELSE 0

\* C16: clean_annotation takes the first "Abstracts" div if there is one, else
\* the first "svAbstract" div, else the first "abstract author" div, wherever
\* the others stand in the page, and returns the sentinel when there is none.
C16_OrderedFallback ==
    (pc = "annotation" /\ runLog[1].op = "priority page") =>
        LET a == FirstOfClass(page_html, "Abstracts")
            b == FirstOfClass(page_html, "svAbstract")
            c == FirstOfClass(page_html, "abstract author")
        IN raw_annotation = IF a # 0 THEN <<DivNames[a]>>
                            ELSE IF b # 0 THEN <<DivNames[b]>>
                            ELSE IF c # 0 THEN <<DivNames[c]>>
                            ELSE <<"Annotation not found.">>

\* C16 witness: the page holds all three containers, the "Abstracts" one last.
C16_Witness ==
    /\ pc = "annotation"
    /\ runLog[1].op = "priority page"
    /\ Len(page_html) = 3
    /\ page_html[1].class = "abstract author"
    /\ page_html[2].class = "svAbstract"
    /\ page_html[3].class = "Abstracts"
    /\ raw_annotation = <<"T3">>

\* positions in runLog of the events of article i
EventsOf(i) == {k \in 1..Len(runLog) : runLog[k].i = i}

Before(i, first, then) ==
    \A k \in EventsOf(i) : runLog[k].op \in then =>
        \E j \in EventsOf(i) : j < k /\ runLog[j].op \in first

TranslationOps == {"openai title ok", "openai title error", "translate_title",
                   "openai annotation ok", "openai annotation error", "translate_annotation"}

PublishOps == {"publish", "publish failed"}

\* C17 as stated: for every entry the page fetch and the extraction are done
\* before any translation call, both translations before the ledger insert,
\* and the insert before the publish call.
C17_EnrichBeforeTranslate ==
    \A i \in 1..FeedWindow :
        /\ Before(i, {"hash"}, {"new"})
        /\ Before(i, {"clean_annotation"}, TranslationOps)
        /\ Before(i, {"translate_title"}, {"save_to_db"})
        /\ Before(i, {"translate_annotation"}, {"save_to_db"})
        /\ Before(i, {"save_to_db"}, PublishOps)

\* the steps of main for one new article, in the order of lines 288-309
PipelineOrder ==
    << {"hash"}, {"new"}, {"translate_title"}, {"fetch", "fetch failed"},
       {"clean_annotation"}, {"translate_annotation"}, {"save_to_db"}, PublishOps >>

\* the steps logged for article i: its events without those of the services
StepsOf(i) ==
    SelectSeq(runLog, LAMBDA e : /\ e.i = i
                                 /\ e.op \notin {"openai title ok", "openai title error",
                                                 "openai annotation ok", "openai annotation error",
                                                 "storage error in is_article_new",
                                                 "storage error in save_to_db"})

\* C17 (amended): a new entry goes through fingerprint, novelty check, title
\* translation, page fetch, extraction, abstract translation, ledger insert,
\* publish, in this order: the title is translated before the page is
\* fetched, the abstract after the extraction, both before the insert, and the
\* insert before the publish call. A run ends early only by a skip or by a
\* storage error of the check or of the insert.
C17_PipelineOrder ==
    \A i \in 1..FeedWindow :
        LET s == StepsOf(i)
            InOrder(n) == \A k \in 1..n : s[k].op \in PipelineOrder[k]
        IN \/ Len(s) <= Len(PipelineOrder) /\ InOrder(Len(s))
           \/ Len(s) = 2 /\ InOrder(1) /\ s[2].op \in {"skip", "is_article_new raised"}
           \/ Len(s) = 7 /\ InOrder(6) /\ s[7].op = "save_to_db raised"

\* C17 witness: an entry went through all eight steps, and its title went to
\* the translation service before its page was fetched.
C17_Witness ==
    /\ Len(StepsOf(1)) = Len(PipelineOrder)
    /\ \E j, k \in EventsOf(1) :
          j < k /\ runLog[j].op = "openai title ok" /\ runLog[k].op = "fetch"

\* positions of the script while main runs, and while send_csv_to_telegram runs
InMain == {"hash", "check", "title", "fetch", "clean", "annotation", "save", "publish"}

InExport == {"send_document"}

\* C18: a run of main or of send_csv_to_telegram starts only from the sleeping
\* loop, with nothing of an earlier run left and never both at once; between
\* the start of a run and its return or its exception no other run starts; the
\* ledger is written only by the save step of the one run of main in progress.
C18_RunsNeverOverlap ==
    [][/\ (polls' # polls \/ exports' # exports) =>
              /\ pc = "idle"
              /\ runLog = <<>> /\ articles = <<>> /\ idx = 0
              /\ polls' + exports' = polls + exports + 1
       /\ pc \in InMain \cup InExport => polls' = polls /\ exports' = exports
       /\ pc \in InMain /\ pc' \in InExport => FALSE
       /\ pc \in InExport /\ pc' \in InMain => FALSE
       /\ ledger' # ledger =>
              /\ pc = "save"
              /\ runLog[1] = Event(0, "parse_rss")
              /\ \A k \in 1..Len(runLog) : runLog[k].op \notin {"export_db_to_csv", "send_document"}]_vars

\* C18 witness: a poll, the export and the next poll ran one after the other,
\* and the second poll is about to write the ledger.
C18_Witness ==
    /\ polls = 2
    /\ exports = 1
    /\ Len(documents) = 1
    /\ pc = "save"
    /\ ledger # <<>>

\* C19: when two runs both found the same entry new, the table holds at most
\* one row with its fingerprint whatever the order of their steps; once an
\* insert has returned the row is there and equals, in every column, the
\* article of the insert that executed first; and an insert raises only when
\* the store itself failed, never because the row is already there.
C19_RaceSafeInsert ==
    (HasEvent(1, "new") /\ HasEvent(2, "new")) =>
        LET hits == {i \in 1..Len(ledger) : ledger[i].hash = articles[1].hash}
        IN /\ articles[1].hash = articles[2].hash
           /\ Cardinality(hits) <= 1
           /\ Len(ledger) = Cardinality(hits)
           /\ saves # <<>> =>
                /\ Cardinality(hits) = 1
                /\ \A i \in hits :
                     /\ ledger[i].title_ru = saves[1].title_ru
                     /\ ledger[i].annotation_ru = saves[1].annotation_ru
                     /\ ledger[i].authors = saves[1].authors
                     /\ ledger[i].published_date = saves[1].published_date
                     /\ ledger[i].url = saves[1].link
           /\ \A p \in Runs : HasEvent(p, "save_to_db raised") =>
                                 HasEvent(p, "storage error in save_to_db")

\* C19 witness: both runs found the entry new, both inserts returned, with
\* different translations, and both runs have ended.
C19_Witness ==
    /\ HasEvent(1, "new") /\ HasEvent(2, "new")
    /\ Len(saves) = 2
    /\ saves[1].title_ru # saves[2].title_ru
    /\ saves[1].annotation_ru # saves[2].annotation_ru
    /\ Len(ledger) = 1
    /\ \A p \in Runs : pc[p] = "returned"

\* the link parse_rss gives a raw entry
LinkOf(entry) == IF "link" \in DOMAIN entry THEN entry.link ELSE <<"#">>

CountOps(log, ops) == Cardinality({k \in 1..Len(log) : log[k].op \in ops})

\* C20: in a poll on a feed of n entries main works on at most min(n, 2)
\* articles: no more are fingerprinted, saved or published in the run, and
\* every row added to the ledger and every message published is that of the
\* entry at position 1 or 2 of the feed of the poll in progress.
C20_OnlyFirstTwoEntries ==
    [][/\ Len(articles') <= Min(2, Len(feed'.entries))
       /\ \A k \in 1..Len(runLog') : runLog'[k].i \in 0..Min(2, Len(feed'.entries))
       /\ CountOps(runLog', {"hash"}) <= Min(2, Len(feed'.entries))
       /\ CountOps(runLog', {"save_to_db"}) <= Min(2, Len(feed'.entries))
       /\ CountOps(runLog', {"publish", "publish failed"}) <= Min(2, Len(feed'.entries))
       /\ ledger' # ledger =>
            /\ idx \in 1..Min(2, Len(feed.entries))
            /\ Len(ledger') = Len(ledger) + 1
            /\ SubSeq(ledger', 1, Len(ledger)) = ledger
            /\ ledger'[Len(ledger')].url = LinkOf(feed.entries[idx])
       /\ published' # published =>
            /\ idx \in 1..Min(2, Len(feed.entries))
            /\ Len(published') = Len(published) + 1
            /\ SubSeq(published', 1, Len(published)) = published
            /\ published'[Len(published')].message.url = LinkOf(feed.entries[idx])]_vars

\* C20 witness: a poll on a feed of three entries has returned with its first
\* two entries saved and published and nothing of the third in the ledger.
C20_Witness ==
    /\ pc = "returned"
    /\ Len(feed.entries) = 3
    /\ CountOps(runLog, {"hash"}) = 2
    /\ CountOps(runLog, {"save_to_db"}) = 2
    /\ CountOps(runLog, {"publish"}) = 2
    /\ \A k \in 1..Len(ledger) : ledger[k].url # LinkOf(feed.entries[3])
    /\ \A k \in 1..Len(published) : published[k].message.url # LinkOf(feed.entries[3])

====
